---- MODULE Spec2Model ----
\* A model of benchmark_auto_score.py: the interpretation of the judge model's
\* reply (get_auto_score) and the benchmark run that uses it (main).
EXTENDS Integers, Sequences, FiniteSets, TLC

\* ---------------------------------------------------------------------------
\* Texts.  A text is a sequence of characters; a run of letters is kept as one
\* element (a word such as "correctness"), which the program's two regular
\* expressions and the JSON scanner treat exactly as they treat its letters.
\* ---------------------------------------------------------------------------

QUOTE == "\""

Digits == {"0", "1", "2", "3", "4", "5", "6", "7", "8", "9"}

DigitVal(c) ==
  CASE c = "0" -> 0 [] c = "1" -> 1 [] c = "2" -> 2 [] c = "3" -> 3
    [] c = "4" -> 4 [] c = "5" -> 5 [] c = "6" -> 6 [] c = "7" -> 7
    [] c = "8" -> 8 [] c = "9" -> 9

DigitChar(n) ==
  CASE n = 0 -> "0" [] n = 1 -> "1" [] n = 2 -> "2" [] n = 3 -> "3"
    [] n = 4 -> "4" [] n = 5 -> "5" [] n = 6 -> "6" [] n = 7 -> "7"
    [] n = 8 -> "8" [] n = 9 -> "9"

\* The characters that are not word characters (\w) of the re module.
NonWord == {"{", "}", QUOTE, ":", ",", " ", "-", ".", "/", "'", "?"}

\* Reading past either end of a text yields the empty string, which is in no class.
At(s, p) == IF p \in 1..Len(s) THEN s[p] ELSE ""

IsWordChar(c) == c # "" /\ c \notin NonWord

Max(a, b) == IF a >= b THEN a ELSE b

Min(a, b) == IF a <= b THEN a ELSE b

RECURSIVE Pow10(_)
Pow10(k) == IF k <= 0 THEN 1 ELSE 10 * Pow10(k - 1)

RECURSIVE NumDigits(_)
NumDigits(n) == IF n < 10 THEN 1 ELSE 1 + NumDigits(n \div 10)

\* ---------------------------------------------------------------------------
\* Python values, as json.loads builds them and as the score dict holds them.
\*   t = "int"   : n
\*   t = "float" : the finite value n / d
\*   t = "inf"   : n = 1 or -1;   t = "nan"
\*   t = "bool"  : n = 1 or 0;    t = "null" (None)
\*   t = "str"   : the characters s
\* ---------------------------------------------------------------------------

IntV(n) == [t |-> "int", n |-> n, d |-> 1, s |-> <<>>]

FloatV(n, d) == [t |-> "float", n |-> n, d |-> d, s |-> <<>>]

InfV(sign) == [t |-> "inf", n |-> sign, d |-> 1, s |-> <<>>]

NanV == [t |-> "nan", n |-> 0, d |-> 1, s |-> <<>>]

BoolV(b) == [t |-> "bool", n |-> IF b THEN 1 ELSE 0, d |-> 1, s |-> <<>>]

NullV == [t |-> "null", n |-> 0, d |-> 1, s |-> <<>>]

StrV(s) == [t |-> "str", n |-> 0, d |-> 1, s |-> s]

\* The largest decimal exponent of a finite float (sys.float_info.max_10_exp):
\* float() of a literal of magnitude 10^309 or more is inf.
MaxFloatExp10 == 308

\* float(literal): sign * mant * 10^scale.
MakeFloat(sign, mant, scale) ==
  IF mant = 0 THEN FloatV(0, 1)
  ELSE IF NumDigits(mant) + scale - 1 > MaxFloatExp10 THEN InfV(sign)
  ELSE IF NumDigits(mant) + scale - 1 < 0 - MaxFloatExp10 - 16 THEN FloatV(0, 1)
  ELSE IF scale >= 0 THEN FloatV(sign * mant * Pow10(scale), 1)
  ELSE FloatV(sign * mant, Pow10(0 - scale))

\* ---------------------------------------------------------------------------
\* json.loads on the matched span (json.decoder / json.scanner).
\* ---------------------------------------------------------------------------

Fail == [ok |-> FALSE, val |-> NullV, pos |-> 0]

Got(v, p) == [ok |-> TRUE, val |-> v, pos |-> p]

RECURSIVE SkipWs(_, _)
SkipWs(s, p) == IF At(s, p) = " " THEN SkipWs(s, p + 1) ELSE p

\* The first position at or after p that holds no digit.
RECURSIVE DigitsEnd(_, _)
DigitsEnd(s, p) == IF At(s, p) \in Digits THEN DigitsEnd(s, p + 1) ELSE p

\* The number written by the digits s[a] .. s[b-1].
RECURSIVE DigitsValue(_, _, _)
DigitsValue(s, a, b) ==
  IF a >= b THEN 0 ELSE DigitsValue(s, a, b - 1) * 10 + DigitVal(s[b - 1])

\* The position of the next QUOTE at or after p, 0 if there is none.
RECURSIVE QuoteAt(_, _)
QuoteAt(s, p) ==
  IF p > Len(s) THEN 0 ELSE IF s[p] = QUOTE THEN p ELSE QuoteAt(s, p + 1)

\* py_scanstring from the opening quote at p (the texts hold no backslash).
ParseString(s, p) ==
  LET q == QuoteAt(s, p + 1)
  IN  IF At(s, p) = QUOTE /\ q > 0
      THEN Got(StrV(SubSeq(s, p + 1, q - 1)), q + 1)
      ELSE Fail

\* int() or float() of the text NUMBER_RE matched: the integer part is
\* s[p1] .. s[p2-1], the fraction ends before p3, the exponent's digits are
\* s[pe] .. s[p4-1].
NumberValue(s, sign, p1, p2, hasFrac, p3, hasExp, expNeg, pe, p4) ==
  LET fracLen == IF hasFrac THEN p3 - (p2 + 1) ELSE 0
      mant == IF hasFrac
              THEN DigitsValue(s, p1, p2) * Pow10(fracLen) + DigitsValue(s, p2 + 1, p3)
              ELSE DigitsValue(s, p1, p2)
      exp == IF hasExp
             THEN (IF expNeg THEN 0 - 1 ELSE 1) * DigitsValue(s, pe, p4)
             ELSE 0
  IN  IF hasFrac \/ hasExp THEN Got(MakeFloat(sign, mant, exp - fracLen), p4)
      ELSE Got(IntV(sign * mant), p2)

\* The group ([eE][-+]?\d+)? from p3 on.
NumberExp(s, sign, p1, p2, hasFrac, p3, expNeg, pe) ==
  LET hasExp == At(s, p3) \in {"e", "E"} /\ At(s, pe) \in Digits
  IN  NumberValue(s, sign, p1, p2, hasFrac, p3, hasExp, expNeg, pe,
                  IF hasExp THEN DigitsEnd(s, pe) ELSE p3)

\* The optional sign of the exponent, after the letter at p3.
NumberExpSign(s, sign, p1, p2, hasFrac, p3) ==
  LET expNeg == At(s, p3 + 1) = "-"
  IN  NumberExp(s, sign, p1, p2, hasFrac, p3, expNeg,
                IF expNeg THEN p3 + 2 ELSE p3 + 1)

\* The group (\.\d+)? from p2 on; p2 = 0 when there is no integer part.
NumberFrac(s, sign, p1, p2) ==
  LET hasFrac == At(s, p2) = "." /\ At(s, p2 + 1) \in Digits
  IN  IF p2 = 0 THEN Fail
      ELSE NumberExpSign(s, sign, p1, p2, hasFrac,
                         IF hasFrac THEN DigitsEnd(s, p2 + 1) ELSE p2)

\* The group (0|[1-9]\d*) from p1 on.
NumberInt(s, sign, p1) ==
  NumberFrac(s, sign, p1,
             IF At(s, p1) = "0" THEN p1 + 1
             ELSE IF At(s, p1) \in Digits THEN DigitsEnd(s, p1) ELSE 0)

\* NUMBER_RE = (-?(?:0|[1-9]\d*))(\.\d+)?([eE][-+]?\d+)?  then int() or float().
ParseNumber(s, p) ==
  LET neg == At(s, p) = "-"
  IN  NumberInt(s, IF neg THEN 0 - 1 ELSE 1, IF neg THEN p + 1 ELSE p)

\* scan_once at p, where c is the character there and num the match of
\* NUMBER_RE there: a string, a constant, a number, then the three names
\* of parse_constant.
ScanOnce(s, p, c, num) ==
  IF c = QUOTE THEN ParseString(s, p)
  ELSE IF c = "null" THEN Got(NullV, p + 1)
  ELSE IF c = "true" THEN Got(BoolV(TRUE), p + 1)
  ELSE IF c = "false" THEN Got(BoolV(FALSE), p + 1)
  ELSE IF num.ok THEN num
  ELSE IF c = "NaN" THEN Got(NanV, p + 1)
  ELSE IF c = "Infinity" THEN Got(InfV(1), p + 1)
  ELSE IF c = "-" /\ At(s, p + 1) = "Infinity" THEN Got(InfV(0 - 1), p + 2)
  ELSE Fail

\* scan_once for a value inside a span without nested braces.
ParseValue(s, p) == ScanOnce(s, p, At(s, p), ParseNumber(s, p))

NoDict == [ok |-> FALSE, pairs |-> <<>>, pos |-> 0]

\* JSONObject after the opening brace: the members from the key at p on,
\* appended to acc; the result's pos is the position after the closing brace.
RECURSIVE ParseMembers(_, _, _)

\* After a member's value, at pn: a closing brace ends the dict, a comma
\* brings the next member.
MemberEnd(s, pn, more) ==
  IF At(s, pn) = "}" THEN [ok |-> TRUE, pairs |-> more, pos |-> pn + 1]
  ELSE IF At(s, pn) = "," THEN ParseMembers(s, SkipWs(s, pn + 1), more)
  ELSE NoDict

\* The member's value val joins the pairs read so far.
MemberValue(s, acc, key, val) ==
  IF ~val.ok THEN NoDict
  ELSE MemberEnd(s, SkipWs(s, val.pos),
                 acc \o <<[k |-> key.val.s, v |-> val.val]>>)

\* The colon at pc1, after the member's key.
MemberColon(s, acc, key, pc1) ==
  IF At(s, pc1) # ":" THEN NoDict
  ELSE MemberValue(s, acc, key, ParseValue(s, SkipWs(s, pc1 + 1)))

\* The member's key, a string.
MemberKey(s, acc, key) ==
  IF ~key.ok THEN NoDict ELSE MemberColon(s, acc, key, SkipWs(s, key.pos))

ParseMembers(s, p, acc) == MemberKey(s, acc, ParseString(s, p))

\* The dict obj is the whole of the text: only blanks may follow it.
WholeText(s, obj) ==
  IF ~obj.ok THEN NoDict
  ELSE IF SkipWs(s, obj.pos) # Len(s) + 1 THEN NoDict
  ELSE obj

\* JSONObject from the opening brace at p0.
JsonObject(s, p0, p1) ==
  IF At(s, p0) # "{" THEN NoDict
  ELSE IF At(s, p1) = "}"
  THEN WholeText(s, [ok |-> TRUE, pairs |-> <<>>, pos |-> p1 + 1])
  ELSE WholeText(s, ParseMembers(s, p1, <<>>))

\* json.loads(s) for a text s that begins with an opening brace: the dict as
\* its key/value pairs in order of appearance, or JSONDecodeError (ok = FALSE).
JsonLoads(s) == JsonObject(s, SkipWs(s, 1), SkipWs(s, SkipWs(s, 1) + 1))

\* dict.get(key, default): the last pair with the key wins.
DictGet(pairs, key, default) ==
  LET hits == {i \in 1..Len(pairs) : pairs[i].k = key}
  IN  IF hits = {} THEN default
      ELSE pairs[CHOOSE i \in hits : \A j \in hits : j <= i].v

\* ---------------------------------------------------------------------------
\* int(value)
\* ---------------------------------------------------------------------------

Coerced(n) == [exc |-> "none", n |-> n]

Raised(e) == [exc |-> e, n |-> 0]

RECURSIVE TrimEnd(_, _)
TrimEnd(s, q) == IF q >= 1 /\ s[q] = " " THEN TrimEnd(s, q - 1) ELSE q

\* int(str): optional surrounding blanks, an optional sign, then digits only.
StrToInt(s) ==
  LET a == SkipWs(s, 1)
      b == TrimEnd(s, Len(s))
      neg == At(s, a) = "-"
      a1 == IF neg THEN a + 1 ELSE a
  IN  IF a1 <= b /\ \A i \in a1..b : s[i] \in Digits
      THEN Coerced((IF neg THEN 0 - 1 ELSE 1) * DigitsValue(s, a1, b + 1))
      ELSE Raised("ValueError")

\* int(float) truncates toward zero.
Trunc(n, d) == IF n >= 0 THEN n \div d ELSE 0 - ((0 - n) \div d)

IntOf(v) ==
  CASE v.t = "int" -> Coerced(v.n)
    [] v.t = "bool" -> Coerced(v.n)
    [] v.t = "float" -> Coerced(Trunc(v.n, v.d))
    [] v.t = "inf" -> Raised("OverflowError")
    [] v.t = "nan" -> Raised("ValueError")
    [] v.t = "null" -> Raised("TypeError")
    [] v.t = "str" -> StrToInt(v.s)

\* ---------------------------------------------------------------------------
\* The two regular expressions of get_auto_score.
\* ---------------------------------------------------------------------------

\* The first position at or after p that holds a brace, Len(s) + 1 if none.
RECURSIVE RunEnd(_, _)
RunEnd(s, p) ==
  IF p > Len(s) \/ s[p] \in {"{", "}"} THEN p ELSE RunEnd(s, p + 1)

\* "correctness" with its quotes lies within s[a] .. s[b].
HasKey(s, a, b) ==
  \E k \in a..(b - 2) :
    s[k] = QUOTE /\ s[k + 1] = "correctness" /\ s[k + 2] = QUOTE

\* A search that takes any span without nested braces, the key in it or not.
MatchEnd_AnySpan(s, i) ==
  LET j == RunEnd(s, i + 1)
  IN  IF At(s, i) = "{" /\ At(s, j) = "}" THEN j ELSE 0

\* \{[^{}]*"correctness"[^{}]*\} tried at position i: the position of the
\* closing brace of the match, 0 if the pattern does not match there.
MatchEnd(s, i) ==
  LET j == RunEnd(s, i + 1)
  IN  IF At(s, i) = "{" /\ At(s, j) = "}" /\ HasKey(s, i + 1, j - 1) THEN j ELSE 0

NoMatch == [found |-> FALSE, lo |-> 0, hi |-> 0]

\* re.search: the match at the leftmost position that has one.
RECURSIVE SearchFrom(_, _)
SearchFrom(s, i) ==
  IF i > Len(s) THEN NoMatch
  ELSE IF MatchEnd(s, i) > 0 THEN [found |-> TRUE, lo |-> i, hi |-> MatchEnd(s, i)]
  ELSE SearchFrom(s, i + 1)

ReSearch(s) == SearchFrom(s, 1)

\* \b at position p: exactly one of s[p-1], s[p] is a word character.
Boundary(s, p) == IsWordChar(At(s, p - 1)) # IsWordChar(At(s, p))

\* A scan that also takes the digit 0: \b([0-9]|10)\b.
RECURSIVE FindAllFrom_ZeroToo(_, _)
FindAllFrom_ZeroToo(s, p) ==
  IF p > Len(s) THEN <<>>
  ELSE IF Boundary(s, p) /\ s[p] \in Digits /\ Boundary(s, p + 1)
       THEN <<DigitVal(s[p])>> \o FindAllFrom_ZeroToo(s, p + 1)
  ELSE IF Boundary(s, p) /\ s[p] = "1" /\ At(s, p + 1) = "0" /\ Boundary(s, p + 2)
       THEN <<10>> \o FindAllFrom_ZeroToo(s, p + 2)
  ELSE FindAllFrom_ZeroToo(s, p + 1)

\* A scan without the closing word boundary: \b([1-9]|10).
RECURSIVE FindAllFrom_NoEndBoundary(_, _)
FindAllFrom_NoEndBoundary(s, p) ==
  IF p > Len(s) THEN <<>>
  ELSE IF Boundary(s, p) /\ s[p] \in Digits \ {"0"}
       THEN <<DigitVal(s[p])>> \o FindAllFrom_NoEndBoundary(s, p + 1)
  ELSE FindAllFrom_NoEndBoundary(s, p + 1)

\* re.findall(r'\b([1-9]|10)\b'): the scan from position p on, the
\* alternatives tried in order, matches not overlapping.
RECURSIVE FindAllFrom(_, _)
FindAllFrom(s, p) ==
  IF p > Len(s) THEN <<>>
  ELSE IF Boundary(s, p) /\ s[p] \in Digits \ {"0"} /\ Boundary(s, p + 1)
       THEN <<DigitVal(s[p])>> \o FindAllFrom(s, p + 1)
  ELSE IF Boundary(s, p) /\ s[p] = "1" /\ At(s, p + 1) = "0" /\ Boundary(s, p + 2)
       THEN <<10>> \o FindAllFrom(s, p + 2)
  ELSE FindAllFrom(s, p + 1)

ReFindAll(s) == FindAllFrom(s, 1)

\* ---------------------------------------------------------------------------
\* get_auto_score
\* ---------------------------------------------------------------------------

Words(s) == StrV(s)

MsgEmpty == Words(<<"Judge", " ", "returned", " ", "empty", " ", "response">>)

MsgNoReasoning == Words(<<"No", " ", "reasoning", " ", "provided">>)

MsgExtracted ==
  Words(<<"Extracted", " ", "from", " ", "non", "-", "JSON", " ", "response">>)

MsgCouldNot ==
  Words(<<"Could", " ", "not", " ", "parse", " ", "judge", " ", "response">>)

JudgeErrorPrefix == <<"Judge", " ", "error", ":", " ">>

\* The dict get_auto_score returns; exc names the exception that leaves it
\* instead ("none" when it returns).
Score(c, e, o, r, raw) ==
  [exc |-> "none", correctness |-> c, efficiency |-> e, outcome |-> o,
   reasoning |-> r, raw_response |-> raw]

Raise(e) ==
  [exc |-> e, correctness |-> 0, efficiency |-> 0, outcome |-> 0,
   reasoning |-> NullV, raw_response |-> <<>>]

Clamp(x) == IF x > 0 THEN Max(1, Min(10, x)) ELSE 0

\* Lines 253-270: the scrape of the numbers, then the total failure.
Fallback(judge_text) ==
  LET numbers == ReFindAll(judge_text)
  IN  IF Len(numbers) >= 3
      THEN Score(numbers[1], numbers[2], numbers[3], MsgExtracted, judge_text)
      ELSE Score(0, 0, 0, MsgCouldNot, judge_text)

\* Lines 231-251: the try block on the matched span.
FromJson(judge_text, span) ==
  LET scores == JsonLoads(span)
      c == IntOf(DictGet(scores.pairs, <<"correctness">>, IntV(0)))
      e == IntOf(DictGet(scores.pairs, <<"efficiency">>, IntV(0)))
      o == IntOf(DictGet(scores.pairs, <<"outcome">>, IntV(0)))
      reasoning == DictGet(scores.pairs, <<"reasoning">>, MsgNoReasoning)
      Caught(x) == x \in {"ValueError", "TypeError"}
  IN  IF ~scores.ok THEN Fallback(judge_text)
      ELSE IF c.exc # "none"
           THEN (IF Caught(c.exc) THEN Fallback(judge_text) ELSE Raise(c.exc))
      ELSE IF e.exc # "none"
           THEN (IF Caught(e.exc) THEN Fallback(judge_text) ELSE Raise(e.exc))
      ELSE IF o.exc # "none"
           THEN (IF Caught(o.exc) THEN Fallback(judge_text) ELSE Raise(o.exc))
      ELSE Score(Clamp(c.n), Clamp(e.n), Clamp(o.n), reasoning, judge_text)

\* Lines 215-270: the interpretation of the judge's reply text.
ScoreExtractor(judge_text) ==
  LET m == ReSearch(judge_text)
  IN  IF judge_text = <<>> THEN Score(0, 0, 0, MsgEmpty, <<>>)
      ELSE IF m.found THEN FromJson(judge_text, SubSeq(judge_text, m.lo, m.hi))
      ELSE Fallback(judge_text)

\* What ollama_generate returns: the error dict, or the server's reply with
\* its counters.  Durations are counted in hundredths of a second (10^7 ns).
GenError(msg) ==
  [error |-> TRUE, msg |-> msg, response |-> <<>>,
   eval_count |-> 0, eval_duration |-> 0, total_duration |-> 0]

GenOk(text, stats) ==
  [error |-> FALSE, msg |-> <<>>, response |-> text,
   eval_count |-> stats.eval_count, eval_duration |-> stats.eval_duration,
   total_duration |-> stats.total_duration]

\* get_auto_score from line 204 on: answer is what the judge call returned.
get_auto_score(answer) ==
  IF answer.error
  THEN Score(0, 0, 0, StrV(JudgeErrorPrefix \o answer.msg), answer.msg)
  ELSE ScoreExtractor(answer.response)

\* ---------------------------------------------------------------------------
\* Judge replies.  A reply is written from a description: the text before the
\* object, the object's four members as literals (in the format line 202 asks
\* the judge for), the text after it.  get_auto_score sees the text only.
\*   k = "int"      : the integer n            k = "tenths" : n / 10, one decimal
\*   k = "huge"     : 1e999 (n = 1) or -1e999  k = "Infinity" : n = 1 or -1
\*   k = "NaN", "null", "true"                 k = "str"    : the string s
\*   k = "absent"   : the member is left out
\* ---------------------------------------------------------------------------

Lit(k, n, s) == [k |-> k, n |-> n, s |-> s]

LInt(n) == Lit("int", n, <<>>)

LStr(s) == Lit("str", 0, s)

LAbsent == Lit("absent", 0, <<>>)

RECURSIVE RenderNat(_)
RenderNat(n) ==
  IF n < 10 THEN <<DigitChar(n)>> ELSE RenderNat(n \div 10) \o <<DigitChar(n % 10)>>

RenderInt(n) == IF n < 0 THEN <<"-">> \o RenderNat(0 - n) ELSE RenderNat(n)

Abs(n) == IF n < 0 THEN 0 - n ELSE n

RenderLit(l) ==
  CASE l.k = "int" -> RenderInt(l.n)
    [] l.k = "tenths" ->
         (IF l.n < 0 THEN <<"-">> ELSE <<>>)
           \o RenderNat(Abs(l.n) \div 10) \o <<".">> \o RenderNat(Abs(l.n) % 10)
    [] l.k = "huge" ->
         (IF l.n < 0 THEN <<"-">> ELSE <<>>) \o <<"1", "e", "9", "9", "9">>
    [] l.k = "Infinity" -> (IF l.n < 0 THEN <<"-">> ELSE <<>>) \o <<"Infinity">>
    [] l.k = "NaN" -> <<"NaN">>
    [] l.k = "null" -> <<"null">>
    [] l.k = "true" -> <<"true">>
    [] l.k = "str" -> <<QUOTE>> \o l.s \o <<QUOTE>>
    [] l.k = "absent" -> <<>>

Member(name, l) ==
  IF l.k = "absent" THEN <<>>
  ELSE << <<QUOTE, name, QUOTE, ":", " ">> \o RenderLit(l) >>

RECURSIVE Join(_)
Join(ms) ==
  IF Len(ms) = 0 THEN <<>>
  ELSE IF Len(ms) = 1 THEN ms[1]
  ELSE ms[1] \o <<",", " ">> \o Join(Tail(ms))

\* {"correctness": c, "efficiency": e, "outcome": o, "reasoning": r}
RenderObject(obj) ==
  <<"{">>
    \o Join(Member("correctness", obj.c) \o Member("efficiency", obj.e)
              \o Member("outcome", obj.o) \o Member("reasoning", obj.r))
    \o <<"}">>

Obj(c, e, o, r) == [has |-> TRUE, c |-> c, e |-> e, o |-> o, r |-> r]

NoObj == [has |-> FALSE, c |-> LAbsent, e |-> LAbsent, o |-> LAbsent, r |-> LAbsent]

Reply(pre, obj, post) == [pre |-> pre, obj |-> obj, post |-> post]

RenderReply(in) ==
  in.pre \o (IF in.obj.has THEN RenderObject(in.obj) ELSE <<>>) \o in.post

\* The score range the judge is asked for (line 202) and the clamp keeps.
ScoreMin == 1

ScoreMax == 10

\* The largest integer literal of the generated replies.
MaxLitInt == 11

\* The most pieces of a generated reply that holds no object.
MaxPieces == 4

PlainReason == <<"good", " ", "answer">>

ReasonStrings ==
  { PlainReason,
    <<"use", " ", "{", "x", "}">>,
    <<"a", "}", "b">>,
    <<"a", "{", "b">>,
    <<"9", " ", "of", " ", "10">> }

FieldLits ==
  { LInt(n) : n \in {0 - 1, 0, 1, ScoreMax, MaxLitInt} }
    \cup { Lit("tenths", n, <<>>) : n \in {0 - 5, 5, 105} }
    \cup { Lit("huge", 1, <<>>), Lit("Infinity", 0 - 1, <<>>), Lit("NaN", 0, <<>>),
           Lit("null", 0, <<>>), Lit("true", 0, <<>>),
           LStr(<<"7">>), LStr(<<"n", "/", "a">>), LAbsent }

ReasonLits == { LStr(PlainReason), LInt(5), LAbsent }

KeylessSpan == <<"{", QUOTE, "note", QUOTE, ":", " ", "3", "}">>

Prefixes ==
  { <<>>,
    <<"Here", " ", "is", " ", "my", " ", "score", ":", " ">>,
    KeylessSpan \o <<" ">>,
    KeylessSpan \o <<" ">> \o KeylessSpan \o <<" ">>,
    <<"see", " ", "{", " ">>,
    <<"I", " ", "give", " ", "7", ",", " ", "8", ",", " ", "9", ".", " ">> }

Suffixes ==
  { <<>>,
    <<" ", "done">>,
    <<" ">> \o KeylessSpan,
    <<" ">> \o RenderObject(Obj(LInt(1), LInt(1), LInt(1), LAbsent)) }

SpanLits == { LInt(7), LInt(0), Lit("null", 0, <<>>), LAbsent }

Pieces ==
  { <<"7">>, <<"3">>, <<"1", "0">>, <<"1", "0", "0">>, <<"a", "1", "b">>,
    <<"ok">>, <<"{">>, <<"}">>, <<QUOTE, "correctness", QUOTE>> }

\* The pieces f[1] .. f[n] separated by blanks.
RECURSIVE JoinPieces(_, _)
JoinPieces(f, n) ==
  IF n = 0 THEN <<>>
  ELSE IF n = 1 THEN f[1]
  ELSE JoinPieces(f, n - 1) \o <<" ">> \o f[n]

\* ---------------------------------------------------------------------------
\* The run: configuration, the server's answers, the records.
\* ---------------------------------------------------------------------------

\* The number of benchmarked models (MODELS, lines 28-39).
NumModels == 2

MODELS == 1..NumModels

TESTS == <<"Reasoning", "Coding", "Logic">>

GENERATE_TIMEOUT == 600

JUDGE_TIMEOUT == 120

PREFLIGHT_TIMEOUT == 30

\* The error strings of ollama_generate (lines 164-167).
TimedOut(timeout) ==
  <<"Request", " ", "timed", " ", "out", " ", "after", " ">>
    \o RenderNat(timeout) \o <<"s">>

NotConnected ==
  <<"Could", " ", "not", " ", "connect", " ", "to", " ", "Ollama", ".", " ", "Is",
    " ", "'", "ollama", " ", "serve", "'", " ", "running", "?">>

TransportErrors(timeout) == {TimedOut(timeout), NotConnected}

Stats(count, eval, total) ==
  [eval_count |-> count, eval_duration |-> eval, total_duration |-> total]

NoStats == Stats(0, 0, 0)

\* What the judge call of one task comes back with: a transport error or a reply.
JErr(msg) == [err |-> TRUE, msg |-> msg, reply |-> Reply(<<>>, NoObj, <<>>)]

JSays(r) == [err |-> FALSE, msg |-> <<>>, reply |-> r]

JudgeAnswer(j) ==
  IF j.err THEN GenError(j.msg) ELSE GenOk(RenderReply(j.reply), NoStats)

JValid == JSays(Reply(<<>>, Obj(LInt(7), LInt(8), LInt(9), LStr(PlainReason)), <<>>))

JUneven == JSays(Reply(<<>>, Obj(LInt(7), LInt(8), LInt(8), LStr(PlainReason)), <<>>))

JZeroCorrectness ==
  JSays(Reply(<<>>, Obj(LInt(0), LInt(5), LInt(5), LStr(PlainReason)), <<>>))

JNumberReasoning == JSays(Reply(<<>>, Obj(LInt(1), LAbsent, LAbsent, LInt(5)), <<>>))

JHuge ==
  JSays(Reply(<<>>, Obj(Lit("huge", 1, <<>>), LInt(8), LInt(9), LStr(PlainReason)), <<>>))

JEmpty == JSays(Reply(<<>>, NoObj, <<>>))

JNoise == JSays(Reply(<<"ok">>, NoObj, <<>>))

\* The servers a run is checked against: one whose judge answers in every
\* way, one whose models report different counters.
ScoringEnv ==
  [errors |-> {TimedOut(GENERATE_TIMEOUT)},
   stats |-> {Stats(50, 200, 250)},
   judge |-> {JErr(NotConnected), JEmpty, JNoise, JValid, JUneven,
              JZeroCorrectness, JNumberReasoning, JHuge}]

SpeedEnv ==
  [errors |-> {NotConnected},
   stats |-> {Stats(50, 200, 250), Stats(30, 300, 400), NoStats},
   judge |-> {JValid}]

Envs == {"scoring", "speed"}

Server(name) == IF name = "scoring" THEN ScoringEnv ELSE SpeedEnv

\* get_auto_score on each answer of the judge.
ScoreTable ==
  [j \in ScoringEnv.judge \cup SpeedEnv.judge |-> get_auto_score(JudgeAnswer(j))]

\* round(num / den, ...) to the nearest unit, num >= 0: both neighbours at an
\* exact tie, which the binary value of the float decides.
RoundSet(num, den) ==
  LET q == num \div den
      r == num % den
  IN  IF 2 * r < den THEN {q} ELSE IF 2 * r > den THEN {q + 1} ELSE {q, q + 1}

\* calculate_tokens_per_sec, in hundredths of a token per second.
calculate_tokens_per_sec(eval_count, eval_duration) ==
  IF eval_duration > 0 THEN RoundSet(eval_count * 10000, eval_duration) ELSE {0}

\* round(total_duration / 1_000_000_000, 2), in hundredths of a second.
duration_sec(total_duration) == total_duration

\* A composite that drops the digits after the first decimal.
Composite_Truncated(scores) ==
  {(10 * (scores.correctness + scores.efficiency + scores.outcome)) \div 3}

\* round((correctness + efficiency + outcome) / 3, 1), in tenths.
Composite(scores) ==
  RoundSet(10 * (scores.correctness + scores.efficiency + scores.outcome), 3)

ScoreRecord(model, test, c, e, o, composite, tps, tokens, duration, status, reasoning) ==
  [model |-> model, test |-> test, correctness |-> c, efficiency |-> e,
   outcome |-> o, composite |-> composite, tokens_per_sec |-> tps,
   output_tokens |-> tokens, duration |-> duration, status |-> status,
   reasoning |-> reasoning]

Call(fn, model, test, err) == [fn |-> fn, model |-> model, test |-> test, err |-> err]

NoReport ==
  [exc |-> "none", response_files |-> 0, judge_files |-> 0, detailed |-> "none",
   summary |-> <<>>, summary_written |-> FALSE, ranked |-> FALSE,
   best |-> 0, fastest |-> 0]

RECURSIVE Sum(_)
Sum(seq) == IF seq = <<>> THEN 0 ELSE Head(seq) + Sum(Tail(seq))

\* list.sort(key=average, reverse=True): descending, equal keys in their order.
Insert(sorted, x) ==
  LET pos == Cardinality({i \in 1..Len(sorted) : sorted[i].average >= x.average})
  IN  SubSeq(sorted, 1, pos) \o <<x>> \o SubSeq(sorted, pos + 1, Len(sorted))

RECURSIVE SortByAverage(_, _)
SortByAverage(seq, n) ==
  IF n = 0 THEN <<>> ELSE Insert(SortByAverage(seq, n - 1), seq[n])

\* max(summaries, key=speed): the first of the fastest.
Fastest(seq) ==
  seq[CHOOSE i \in 1..Len(seq) :
        /\ \A j \in 1..Len(seq) : seq[j].speed <= seq[i].speed
        /\ \A j \in 1..(i - 1) : seq[j].speed < seq[i].speed].model

VARIABLES pc, reply, judge, result, env, mi, ti, results, model_scores, calls, report

vars == <<pc, reply, judge, result, env, mi, ti, results, model_scores, calls, report>>

extractVars == <<reply, judge, result>>

runVars == <<env, mi, ti, results, model_scores, calls, report>>

judge_text == judge.response

NoResult == Raise("pending")

InitRun ==
  /\ mi = 1
  /\ ti = 1
  /\ results = <<>>
  /\ model_scores =
       [m \in MODELS |->
          [Reasoning |-> 0, Coding |-> 0, Logic |-> 0, speeds |-> <<>>]]
  /\ calls = <<>>
  /\ report = NoReport

\* ---------------------------------------------------------------------------
\* The extractor on its own: one judge call, one get_auto_score.
\* ---------------------------------------------------------------------------

\* Replies that are exactly the object asked for, with scores in range.
ExactReply ==
  \E c \in ScoreMin..ScoreMax, e \in ScoreMin..ScoreMax, o \in ScoreMin..ScoreMax,
     r \in ReasonStrings :
    reply = Reply(<<>>, Obj(LInt(c), LInt(e), LInt(o), LStr(r)), <<>>)

\* Replies that are one object whose members are of any type.
TypedReply ==
  \E c \in FieldLits, e \in FieldLits, o \in FieldLits, r \in ReasonLits :
    reply = Reply(<<>>, Obj(c, e, o, r), <<>>)

\* Replies with text, other brace spans or a second object around the object.
EmbeddedReply ==
  \E pre \in Prefixes, post \in Suffixes, c \in SpanLits, e \in SpanLits :
    reply = Reply(pre, Obj(c, e, LInt(9), LStr(PlainReason)), post)

\* Replies that hold no object: up to MaxPieces pieces separated by blanks.
NoiseReply ==
  \E n \in 0..MaxPieces :
    \E f \in [1..n -> Pieces] : reply = Reply(JoinPieces(f, n), NoObj, <<>>)

\* The judge call of line 204 answers with a reply, or fails in transport.
InitExtract ==
  /\ pc = "judged"
  /\ \/ /\ (ExactReply \/ TypedReply \/ EmbeddedReply \/ NoiseReply)
        /\ judge = GenOk(RenderReply(reply), NoStats)
     \/ /\ reply = Reply(<<>>, NoObj, <<>>)
        /\ \E msg \in TransportErrors(JUDGE_TIMEOUT) : judge = GenError(msg)
  /\ result = NoResult
  /\ env = "scoring"
  /\ InitRun

\* get_auto_score from line 206 on, the judge having answered.
Extract ==
  /\ pc = "judged"
  /\ ~judge.error
  /\ result' = get_auto_score(judge)
  /\ pc' = "scored"
  /\ UNCHANGED <<reply, judge>>
  /\ UNCHANGED runVars

\* get_auto_score from line 206 on, the judge call having failed.
ExtractError ==
  /\ pc = "judged"
  /\ judge.error
  /\ result' = get_auto_score(judge)
  /\ pc' = "scored"
  /\ UNCHANGED <<reply, judge>>
  /\ UNCHANGED runVars

NextExtract == Extract \/ ExtractError

SpecExtract == InitExtract /\ [][NextExtract]_vars

\* ---------------------------------------------------------------------------
\* The run (main): pre-flight check, one step per (model, task) pair, compilation.
\* ---------------------------------------------------------------------------

Init ==
  /\ pc = "preflight"
  /\ env \in Envs
  /\ reply = Reply(<<>>, NoObj, <<>>)
  /\ judge = GenError(<<>>)
  /\ result = NoResult
  /\ InitRun

\* Lines 323-336: the judge does not answer the pre-flight call; sys.exit(1).
PreflightError ==
  /\ pc = "preflight"
  /\ \E msg \in TransportErrors(PREFLIGHT_TIMEOUT) :
       judge' = GenError(msg)
  /\ calls' = Append(calls, Call("preflight", 0, "", TRUE))
  /\ pc' = "aborted"
  /\ UNCHANGED <<reply, result, env, mi, ti, results, model_scores, report>>

\* An empty pre-flight answer that is taken for an answer.
PreflightEmpty_Proceeds ==
  /\ pc = "preflight"
  /\ judge' = GenOk(<<>>, NoStats)
  /\ calls' = Append(calls, Call("preflight", 0, "", FALSE))
  /\ pc' = "loop"
  /\ UNCHANGED <<reply, result, env, mi, ti, results, model_scores, report>>

\* Lines 338-342: the judge answers the pre-flight call with nothing; sys.exit(1).
PreflightEmpty ==
  /\ pc = "preflight"
  /\ judge' = GenOk(<<>>, NoStats)
  /\ calls' = Append(calls, Call("preflight", 0, "", FALSE))
  /\ pc' = "aborted"
  /\ UNCHANGED <<reply, result, env, mi, ti, results, model_scores, report>>

\* Lines 344-348: the judge answers; the benchmarks begin.
PreflightOk ==
  /\ pc = "preflight"
  /\ judge' = GenOk(<<"OK">>, NoStats)
  /\ calls' = Append(calls, Call("preflight", 0, "", FALSE))
  /\ pc' = "loop"
  /\ UNCHANGED <<reply, result, env, mi, ti, results, model_scores, report>>

\* The two for statements (lines 351, 358): on to the next task, the next
\* model, or the compilation.
Advance ==
  /\ ti' = IF ti < Len(TESTS) THEN ti + 1 ELSE 1
  /\ mi' = IF ti < Len(TESTS) THEN mi ELSE mi + 1
  /\ pc' = IF ti = Len(TESTS) /\ mi = NumModels THEN "compile" ELSE "loop"

\* A failed generation whose answer is handed to the judge all the same.
TaskError_Judged ==
  /\ pc = "loop"
  /\ \E msg \in Server(env).errors :
       results' =
         Append(results,
                ScoreRecord(mi, TESTS[ti], 0, 0, 0, 0, 0, 0, 0, "ERROR", StrV(msg)))
  /\ calls' = calls \o <<Call("generate", mi, TESTS[ti], TRUE),
                         Call("judge", mi, TESTS[ti], FALSE)>>
  /\ Advance
  /\ UNCHANGED <<reply, judge, result, env, model_scores, report>>

\* Lines 364-381: the generation call fails; the record is an ERROR record.
TaskError ==
  /\ pc = "loop"
  /\ \E msg \in Server(env).errors :
       results' =
         Append(results,
                ScoreRecord(mi, TESTS[ti], 0, 0, 0, 0, 0, 0, 0, "ERROR", StrV(msg)))
  /\ calls' = Append(calls, Call("generate", mi, TESTS[ti], TRUE))
  /\ Advance
  /\ UNCHANGED <<reply, judge, result, env, model_scores, report>>

\* Lines 364-442: the model answers, the judge call is made and get_auto_score
\* returns; the record is an OK or a SCORE_FAILED record.
TaskScored ==
  /\ pc = "loop"
  /\ \E st \in Server(env).stats, j \in Server(env).judge :
       LET scores == ScoreTable[j]
           ok == scores.correctness > 0
       IN  /\ scores.exc = "none"
           /\ \E tokens_per_sec \in
                   calculate_tokens_per_sec(st.eval_count, st.eval_duration),
                 composite \in Composite(scores) :
                /\ model_scores' =
                     [model_scores EXCEPT
                        ![mi].speeds = Append(@, tokens_per_sec),
                        ![mi][TESTS[ti]] = IF ok THEN composite ELSE @]
                /\ results' =
                     Append(results,
                            ScoreRecord(mi, TESTS[ti], scores.correctness,
                                        scores.efficiency, scores.outcome,
                                        IF ok THEN composite ELSE 0,
                                        tokens_per_sec, st.eval_count,
                                        duration_sec(st.total_duration),
                                        IF ok THEN "OK" ELSE "SCORE_FAILED",
                                        scores.reasoning))
           /\ calls' =
                calls \o <<Call("generate", mi, TESTS[ti], FALSE),
                           Call("judge", mi, TESTS[ti], j.err)>>
  /\ report' = [report EXCEPT !.response_files = @ + 1, !.judge_files = @ + 1]
  /\ Advance
  /\ UNCHANGED <<reply, judge, result, env>>

\* Lines 364-405: the model answers, the judge call is made and an exception
\* leaves get_auto_score; nothing in main catches it.
TaskCrash ==
  /\ pc = "loop"
  /\ \E st \in Server(env).stats, j \in Server(env).judge :
       /\ ScoreTable[j].exc # "none"
       /\ \E tokens_per_sec \in
               calculate_tokens_per_sec(st.eval_count, st.eval_duration) :
            model_scores' =
              [model_scores EXCEPT ![mi].speeds = Append(@, tokens_per_sec)]
       /\ calls' =
            calls \o <<Call("generate", mi, TESTS[ti], FALSE),
                       Call("judge", mi, TESTS[ti], j.err)>>
       /\ report' = [report EXCEPT !.response_files = @ + 1,
                                   !.exc = ScoreTable[j].exc]
  /\ pc' = "crashed"
  /\ UNCHANGED <<reply, judge, result, env, mi, ti, results>>

\* The rows of the detailed table that line 457 can write: r["reasoning"]
\* must have the method replace.
Writable(r) == r.reasoning.t = "str"

\* Lines 451-458: the detailed table stops at a record whose reasoning is no
\* string (AttributeError); the file is left with the rows before it.
CompileCrash ==
  /\ pc = "compile"
  /\ \E i \in 1..Len(results) : ~Writable(results[i])
  /\ report' = [report EXCEPT !.detailed = "partial", !.exc = "AttributeError"]
  /\ pc' = "crashed"
  /\ UNCHANGED <<reply, judge, result, env, mi, ti, results, model_scores, calls>>

\* Lines 464-472: the candidates for a model's average (tenths) and speed
\* (hundredths).
Averages(m) ==
  LET sc == model_scores[m]
      valid == SelectSeq(<<sc.Reasoning, sc.Coding, sc.Logic>>, LAMBDA x : x > 0)
  IN  IF valid = <<>> THEN {0} ELSE RoundSet(Sum(valid), Len(valid))

Speeds(m) ==
  LET speeds == model_scores[m].speeds
  IN  IF speeds = <<>> THEN {0} ELSE RoundSet(Sum(speeds), Len(speeds))

Summary(m, avg, speed) ==
  [model |-> m, reasoning |-> model_scores[m].Reasoning,
   coding |-> model_scores[m].Coding, logic |-> model_scores[m].Logic,
   average |-> avg, speed |-> speed]

\* Lines 461-481: the summaries of models 1 .. n, in the order of MODELS.
RECURSIVE Summaries(_)
Summaries(n) ==
  IF n = 0 THEN {<<>>}
  ELSE { Append(sq, Summary(n, avg, speed)) :
           sq \in Summaries(n - 1), avg \in Averages(n), speed \in Speeds(n) }

\* Lines 451-558: both tables are written, the ranking is printed.
CompileOk ==
  /\ pc = "compile"
  /\ \A i \in 1..Len(results) : Writable(results[i])
  /\ \E summaries \in Summaries(NumModels) :
       LET sorted == SortByAverage(summaries, Len(summaries))
       IN  report' = [report EXCEPT !.detailed = "written",
                                    !.summary = sorted,
                                    !.summary_written = TRUE,
                                    !.ranked = TRUE,
                                    !.best = sorted[1].model,
                                    !.fastest = Fastest(sorted)]
  /\ pc' = "done"
  /\ UNCHANGED <<reply, judge, result, env, mi, ti, results, model_scores, calls>>

Next ==
  \/ PreflightError
  \/ PreflightEmpty
  \/ PreflightOk
  \/ TaskError
  \/ TaskScored
  \/ TaskCrash
  \/ CompileCrash
  \/ CompileOk

Spec == Init /\ [][Next]_vars

\* ---------------------------------------------------------------------------
\* Properties of the extractor (checked under SpecExtract).
\* ---------------------------------------------------------------------------

Scored == pc = "scored"

\* get_auto_score returned a score.
Returned == Scored /\ result.exc = "none"

ValidScore(x) == x = 0 \/ x \in ScoreMin..ScoreMax

AllZero(r) == r.correctness = 0 /\ r.efficiency = 0 /\ r.outcome = 0

AllInRange(r) ==
  /\ r.correctness \in ScoreMin..ScoreMax
  /\ r.efficiency \in ScoreMin..ScoreMax
  /\ r.outcome \in ScoreMin..ScoreMax

\* The reply is nothing but the object.
BareObject(in) == in.obj.has /\ in.pre = <<>> /\ in.post = <<>>

NoBrace(s) == \A i \in 1..Len(s) : s[i] \notin {"{", "}"}

IsNumber(l) == l.k \in {"int", "tenths", "huge"}

IsFinite(l) == l.k \in {"int", "tenths"}

\* The reply is exactly the object asked for, its scores integers in range.
IsExact(in) ==
  /\ BareObject(in)
  /\ \A l \in {in.obj.c, in.obj.e, in.obj.o} :
       l.k = "int" /\ l.n \in ScoreMin..ScoreMax
  /\ in.obj.r.k = "str"

\* The reply is a valid JSON object whose three scores are numbers.
IsNumeric(in) ==
  /\ BareObject(in)
  /\ IsNumber(in.obj.c) /\ IsNumber(in.obj.e) /\ IsNumber(in.obj.o)
  /\ in.obj.r.k = "str" /\ NoBrace(in.obj.r.s)

\* The written value of a number is at most 0, is above 10.
AtMostZero(l) == IsNumber(l) /\ l.n <= 0

AboveTen(l) ==
  \/ l.k = "int" /\ l.n > ScoreMax
  \/ l.k = "tenths" /\ l.n > 10 * ScoreMax
  \/ l.k = "huge" /\ l.n > 0

\* What the clamping rule gives for a written integer or a missing member.
ExpectedOut(l) ==
  IF l.k = "absent" \/ l.n <= 0 THEN 0
  ELSE IF l.n > ScoreMax THEN ScoreMax ELSE l.n

\* C1: the extractor never raises; for every reply text it returns a score
\* whose three numbers are each 0 or within 1..10.
C1_NeverRaises ==
  (Scored /\ ~judge.error) =>
    /\ result.exc = "none"
    /\ ValidScore(result.correctness)
    /\ ValidScore(result.efficiency)
    /\ ValidScore(result.outcome)

\* C2: a reply that is exactly {"correctness": c, "efficiency": e, "outcome": o,
\* "reasoning": r}, with c, e, o in 1..10 and r any string, comes back as
\* (c, e, o, r) with the full reply text as raw response.
C2_ExactRoundTrip ==
  (Scored /\ IsExact(reply)) =>
    result = Score(reply.obj.c.n, reply.obj.e.n, reply.obj.o.n,
                   StrV(reply.obj.r.s), judge_text)

FieldClamped(l, out) ==
  /\ AtMostZero(l) => out = 0
  /\ AboveTen(l) => out = ScoreMax
  /\ (l.k = "int" /\ l.n \in ScoreMin..ScoreMax) => out = l.n

\* C3: in a valid JSON reply each numeric field is clamped on its own: a value
\* of at most 0 gives 0, a value above 10 gives 10, whatever the other two are.
C3_ClampedIndependently ==
  (Scored /\ IsNumeric(reply)) =>
    /\ result.exc = "none"
    /\ FieldClamped(reply.obj.c, result.correctness)
    /\ FieldClamped(reply.obj.e, result.efficiency)
    /\ FieldClamped(reply.obj.o, result.outcome)

Fraction(l) == l.k = "tenths" /\ l.n > 0 /\ l.n < 10

\* C4: in a valid JSON reply a numeric field strictly between 0 and 1 gives 1.
C4_FractionGivesOne ==
  (Returned /\ IsNumeric(reply)
     /\ IsFinite(reply.obj.c) /\ IsFinite(reply.obj.e) /\ IsFinite(reply.obj.o)) =>
    /\ Fraction(reply.obj.c) => result.correctness = 1
    /\ Fraction(reply.obj.e) => result.efficiency = 1
    /\ Fraction(reply.obj.o) => result.outcome = 1

\* C5 as stated: every score get_auto_score returns is all-or-nothing, its
\* three numbers all 0 or all within 1..10.
C5_AllOrNothing == Returned => (AllZero(result) \/ AllInRange(result))

\* The try block of lines 231-249 returned: a span was matched, json.loads
\* read it and int() took each of the three fields.
ParsedObject(text) ==
  LET m == ReSearch(text)
      scores == JsonLoads(SubSeq(text, m.lo, m.hi))
      Field(key) == IntOf(DictGet(scores.pairs, <<key>>, IntV(0)))
  IN  /\ m.found
      /\ scores.ok
      /\ Field("correctness").exc = "none"
      /\ Field("efficiency").exc = "none"
      /\ Field("outcome").exc = "none"

\* C5 as amended: each number of a returned score is 0 or within 1..10, and a
\* score that was not read from a parsed JSON object (judge error, empty
\* reply, scrape, total failure) is all-or-nothing.
C5_AllOrNothingOutsideJson ==
  Returned =>
    /\ ValidScore(result.correctness)
    /\ ValidScore(result.efficiency)
    /\ ValidScore(result.outcome)
    /\ (judge.error \/ ~ParsedObject(judge_text)) =>
         (AllZero(result) \/ AllInRange(result))

\* A reply that holds digits, fails in the try block and is scraped to three scores.
C5_Witness ==
  /\ Returned
  /\ ReSearch(judge_text).found
  /\ ~ParsedObject(judge_text)
  /\ AllInRange(result)

\* The spans without nested braces that hold the quoted key, as <<from, to>>.
KeyedSpans(s) ==
  { sp \in (1..Len(s)) \X (1..Len(s)) :
      /\ sp[1] < sp[2]
      /\ s[sp[1]] = "{"
      /\ s[sp[2]] = "}"
      /\ \A k \in (sp[1] + 1)..(sp[2] - 1) : s[k] \notin {"{", "}"}
      /\ \E k \in (sp[1] + 1)..(sp[2] - 3) :
           s[k] = QUOTE /\ s[k + 1] = "correctness" /\ s[k + 2] = QUOTE }

FirstKeyedSpan(s) ==
  CHOOSE sp \in KeyedSpans(s) : \A other \in KeyedSpans(s) : sp[1] <= other[1]

\* The positions where a word-bounded 1-9 or 10 begins.
TokenStarts(s) ==
  { p \in 1..Len(s) :
      /\ ~IsWordChar(At(s, p - 1))
      /\ \/ s[p] \in Digits \ {"0"} /\ ~IsWordChar(At(s, p + 1))
         \/ s[p] = "1" /\ At(s, p + 1) = "0" /\ ~IsWordChar(At(s, p + 2)) }

TokenValue(s, p) == IF At(s, p + 1) = "0" THEN 10 ELSE DigitVal(s[p])

\* The k-th token of the text.
Token(s, k) ==
  TokenValue(s, CHOOSE p \in TokenStarts(s) :
                  Cardinality({q \in TokenStarts(s) : q < p}) = k - 1)

\* No JSON object is parsed: no keyed span, or json.loads fails on the first.
NothingParsed(s) ==
  \/ KeyedSpans(s) = {}
  \/ ~JsonLoads(SubSeq(s, FirstKeyedSpan(s)[1], FirstKeyedSpan(s)[2])).ok

\* C6: when a non-empty reply yields no parsed JSON object, the word-bounded
\* tokens 1-9 and 10 of the full text decide: the first three are the scores,
\* with the reasoning "Extracted from non-JSON response"; with fewer than
\* three the score is (0,0,0) with "Could not parse judge response"; the raw
\* response is the full text either way.
C6_TokensDecide ==
  (Scored /\ ~judge.error /\ judge_text # <<>> /\ NothingParsed(judge_text)) =>
    result =
      IF Cardinality(TokenStarts(judge_text)) >= 3
      THEN Score(Token(judge_text, 1), Token(judge_text, 2), Token(judge_text, 3),
                 MsgExtracted, judge_text)
      ELSE Score(0, 0, 0, MsgCouldNot, judge_text)

\* A text scraped to three scores that also holds a digit run that is no token.
C6_Witness ==
  /\ Scored
  /\ NothingParsed(judge_text)
  /\ Cardinality(TokenStarts(judge_text)) >= 3
  /\ \E p \in 1..Len(judge_text) :
       judge_text[p] = "1" /\ At(judge_text, p + 1) = "0"
         /\ At(judge_text, p + 2) = "0"
  /\ result.reasoning = MsgExtracted

NoKey(s) == \A k \in 1..Len(s) : s[k] # "correctness"

IntOrAbsent(l) == l.k \in {"int", "absent"}

\* C7: the structured extraction takes the first span without nested braces
\* that holds the key "correctness", passing over earlier spans without it;
\* when only a later span holds the key, that span is parsed and its scores
\* are returned.
C7_FirstKeyedSpan ==
  /\ (Scored /\ ~judge.error) =>
       /\ ReSearch(judge_text).found <=> KeyedSpans(judge_text) # {}
       /\ ReSearch(judge_text).found =>
            <<ReSearch(judge_text).lo, ReSearch(judge_text).hi>>
              = FirstKeyedSpan(judge_text)
  /\ (Scored /\ reply.obj.has /\ NoKey(reply.pre)
        /\ reply.obj.c.k = "int" /\ IntOrAbsent(reply.obj.e)
        /\ IntOrAbsent(reply.obj.o)
        /\ reply.obj.r.k = "str" /\ NoBrace(reply.obj.r.s)) =>
       result = Score(ExpectedOut(reply.obj.c), ExpectedOut(reply.obj.e),
                      ExpectedOut(reply.obj.o), StrV(reply.obj.r.s), judge_text)

\* Two spans without the key come first, an object with other scores follows.
C7_Witness ==
  /\ Scored
  /\ reply.pre = KeylessSpan \o <<" ">> \o KeylessSpan \o <<" ">>
  /\ reply.post = <<" ">> \o RenderObject(Obj(LInt(1), LInt(1), LInt(1), LAbsent))
  /\ reply.obj.c = LInt(7)
  /\ result.correctness = 7
  /\ result.outcome = 9

\* ---------------------------------------------------------------------------
\* Properties of the run (checked under Spec).
\* ---------------------------------------------------------------------------

\* The place of the pair (model m, task t) in configuration order.
PairIndex(m, t) ==
  (m - 1) * Len(TESTS) + (CHOOSE k \in 1..Len(TESTS) : TESTS[k] = t)

NumPairs == NumModels * Len(TESTS)

\* The generation call of the record's pair came back with an answer, with a
\* transport error; a judge call was made for the pair.
Generated(r) ==
  \E k \in 1..Len(calls) : calls[k] = Call("generate", r.model, r.test, FALSE)

GenerationFailed(r) ==
  \E k \in 1..Len(calls) : calls[k] = Call("generate", r.model, r.test, TRUE)

Judged(r) ==
  \E k \in 1..Len(calls) :
    calls[k].fn = "judge" /\ calls[k].model = r.model /\ calls[k].test = r.test

\* x tenths is the sum of the three scores divided by 3, to the nearest tenth.
MeanToOneDecimal(x, sum) ==
  (3 * x - 10 * sum) \in (0 - 1)..1

\* C8: a record of a task whose generation succeeded has, when its
\* correctness is 0, composite 0 and status SCORE_FAILED whatever its efficiency
\* and outcome, and the model's score of the task stays 0; when its
\* correctness is positive, its composite is the mean of the three scores
\* rounded to one decimal, positive, and its status is OK.
C8_CompositeAndStatus ==
  \A i \in 1..Len(results) :
    Generated(results[i]) =>
      /\ results[i].correctness >= 0
      /\ results[i].correctness = 0 =>
           /\ results[i].composite = 0
           /\ results[i].status = "SCORE_FAILED"
           /\ model_scores[results[i].model][results[i].test] = 0
      /\ results[i].correctness > 0 =>
           /\ MeanToOneDecimal(results[i].composite,
                               results[i].correctness + results[i].efficiency
                                 + results[i].outcome)
           /\ results[i].composite > 0
           /\ results[i].status = "OK"

\* A failed scoring with efficiency and outcome above 0, a failed scoring after
\* a transport error of the judge, and a composite that had to be rounded.
C8_Witness ==
  /\ \E i \in 1..Len(results) :
       /\ Generated(results[i])
       /\ results[i].status = "SCORE_FAILED"
       /\ results[i].efficiency > 0 /\ results[i].outcome > 0
  /\ \E i \in 1..Len(results) :
       /\ results[i].status = "SCORE_FAILED"
       /\ Call("judge", results[i].model, results[i].test, TRUE)
            \in {calls[k] : k \in 1..Len(calls)}
  /\ \E i \in 1..Len(results) :
       /\ Generated(results[i])
       /\ results[i].status = "OK"
       /\ results[i].composite % 10 # 0

\* The run went on after the call calls[k]: the next call is the generation
\* call of the next pair, or the loop stands at the next pair, or the pair
\* was the last one and the compilation follows.
WentOn(k) ==
  IF k < Len(calls)
  THEN /\ calls[k + 1].fn = "generate"
       /\ PairIndex(calls[k + 1].model, calls[k + 1].test)
            = PairIndex(calls[k].model, calls[k].test) + 1
  ELSE IF pc = "loop"
  THEN PairIndex(mi, TESTS[ti]) = PairIndex(calls[k].model, calls[k].test) + 1
  ELSE /\ PairIndex(calls[k].model, calls[k].test) = NumPairs
       /\ pc \in {"compile", "done", "crashed"}

\* C9: a transport error of the generation call of a pair leaves exactly one
\* record of the pair, with status ERROR, the three scores and the composite 0
\* and the error string as reasoning; no judge call is made for the pair and
\* the run goes on with the next task; only such records have status ERROR.
C9_ErrorShortCircuits ==
  /\ \A i \in 1..Len(results) :
       /\ results[i].status = "ERROR" <=> GenerationFailed(results[i])
       /\ results[i].status = "ERROR" =>
            /\ AllZero(results[i])
            /\ results[i].composite = 0
            /\ \E msg \in TransportErrors(GENERATE_TIMEOUT) :
                 results[i].reasoning = StrV(msg)
            /\ ~Judged(results[i])
            /\ \A j \in 1..Len(results) :
                 (results[j].model = results[i].model
                    /\ results[j].test = results[i].test) => j = i
  /\ \A k \in 1..Len(calls) :
       (calls[k].fn = "generate" /\ calls[k].err) =>
         /\ \E i \in 1..Len(results) :
              /\ results[i].model = calls[k].model
              /\ results[i].test = calls[k].test
              /\ results[i].status = "ERROR"
         /\ WentOn(k)

\* An ERROR record followed by a scored record: the run went on.
C9_Witness ==
  \E i \in 1..(Len(results) - 1) :
    /\ results[i].status = "ERROR"
    /\ GenerationFailed(results[i])
    /\ results[i + 1].status = "OK"

\* C10: once the pre-flight check has passed no failure stops the run: the
\* records are those of the pairs in configuration order, one each, the
\* compilation begins with a record of every pair and ends with the detailed
\* table, the summary table and the ranking written.
C10_NoFailureIsFatal ==
  pc \notin {"preflight", "aborted"} =>
    /\ pc # "crashed"
    /\ \A i \in 1..Len(results) :
         PairIndex(results[i].model, results[i].test) = i
    /\ pc \in {"compile", "done"} => Len(results) = NumPairs
    /\ pc = "done" =>
         /\ report.detailed = "written"
         /\ report.summary_written
         /\ report.ranked

\* C11: when the pre-flight call comes back with a transport error or an
\* empty response the run is aborted with nothing but that call made: no
\* generation call, no record, neither table written; and a generation call
\* is only ever made after a pre-flight call that was answered with text.
C11_PreflightAbort ==
  /\ pc # "preflight" =>
       (pc = "aborted" <=> (judge.error \/ judge.response = <<>>))
  /\ pc = "aborted" =>
       /\ Len(calls) = 1
       /\ calls[1].fn = "preflight"
       /\ results = <<>>
       /\ report = NoReport
       /\ \A m \in MODELS : model_scores[m].speeds = <<>>
  /\ \A k \in 1..Len(calls) :
       calls[k].fn # "preflight" =>
         /\ k > 1
         /\ calls[1] = Call("preflight", 0, "", FALSE)
         /\ ~judge.error
         /\ judge.response # <<>>

\* The run was aborted on an empty answer of the judge.
C11_Witness ==
  /\ pc = "aborted"
  /\ ~judge.error
  /\ judge.response = <<>>
  /\ calls = <<Call("preflight", 0, "", FALSE)>>

\* The throughputs (hundredths) in the records of model m, in order.
ThroughputsOf(m) ==
  LET rs == SelectSeq(results, LAMBDA r : r.model = m)
  IN  [i \in 1..Len(rs) |-> rs[i].tokens_per_sec]

\* The mean of the throughputs tps to two decimals, 0 for none.
MeanThroughput(tps) ==
  IF tps = <<>> THEN {0} ELSE RoundSet(Sum(tps), Len(tps))

\* C12: a model's mean throughput in its summary is the mean of the
\* throughput of all its attempted tasks, a task whose generation call failed
\* counting with its throughput 0; the mean is 0 only when no task was
\* attempted or every attempted task has throughput 0.
C12_MeanOverAttempted ==
  report.summary_written =>
    \A i \in 1..Len(report.summary) :
      /\ report.summary[i].speed
           \in MeanThroughput(ThroughputsOf(report.summary[i].model))
      /\ report.summary[i].speed = 0 =>
           \A k \in 1..Len(results) :
             results[k].model = report.summary[i].model =>
               results[k].tokens_per_sec = 0

====
